---- MODULE Spec2Model ----
(***************************************************************************)
(* Model of the client-side token registry (src/src/lib/tokenStorage.ts)   *)
(* and of the operations of useTokenManager that write to it.              *)
(*                                                                         *)
(* Strings are sequences of one-character strings, so that toLowerCase     *)
(* and String.includes are computed and not assumed.  JavaScript values    *)
(* are tagged records [t |-> type, ...]; an object is a function from its  *)
(* own property names to values, so a record with fewer properties is a    *)
(* different value from one with more.                                     *)
(***************************************************************************)
EXTENDS Integers, Sequences, FiniteSets, TLC

(***************************************************************************)
(* Bounds of the model.                                                    *)
(***************************************************************************)
\* Date.now() ranges over 1..MaxTime.
MaxTime == 2

\* Number of steps (registry calls, clock ticks, storage faults) in one
\* behaviour.
MaxOps == 3
\* The number of user and wallet events in one behaviour of the page.
MaxEvents == 2

(***************************************************************************)
(* Strings.                                                                *)
(***************************************************************************)
\* String.prototype.toLowerCase on one character of the model's alphabet.
LowerChar(c) ==
  CASE c = "A" -> "a"
    [] c = "B" -> "b"
    [] c = "Z" -> "z"
    [] c = "X" -> "x"
    [] OTHER -> c

\* String.prototype.toLowerCase.
ToLowerCase(s) == [i \in 1..Len(s) |-> LowerChar(s[i])]

\* String.prototype.includes: q occurs in s as a contiguous substring.
Includes(s, q) ==
  \E i \in 0..(Len(s) - Len(q)) : SubSeq(s, i + 1, i + Len(q)) = q

DecimalDigits == <<"0", "1", "2", "3", "4", "5", "6", "7", "8", "9">>

\* Number.prototype.toString for a natural number.
RECURSIVE NumberToString(_)
NumberToString(n) ==
  IF n < 10 THEN <<DecimalDigits[n + 1]>>
  ELSE NumberToString(n \div 10) \o <<DecimalDigits[(n % 10) + 1]>>

(***************************************************************************)
(* JavaScript / JSON values.                                               *)
(***************************************************************************)
Str(s) == [t |-> "string", s |-> s]
Num(n) == [t |-> "number", n |-> n]
Obj(o) == [t |-> "object", o |-> o]
Arr(a) == [t |-> "array", a |-> a]
Bool(b) == [t |-> "boolean", b |-> b]
BigIntV(n) == [t |-> "bigint", n |-> n]
Undefined == [t |-> "undefined"]
Null == [t |-> "null"]
\* JSON.parse of a text that is not JSON throws.
NotJson == [t |-> "notjson"]

\* The typeof operator.
TypeOf(v) ==
  CASE v.t = "null" -> "object"
    [] v.t = "array" -> "object"
    [] OTHER -> v.t

\* Property access v.f; on null or undefined it throws a TypeError.
GetThrows(v) == v.t \in {"null", "undefined"}

GetProp(v, f) ==
  IF v.t = "object" /\ f \in DOMAIN v.o THEN v.o[f] ELSE Undefined

\* JSON.stringify of an object followed by JSON.parse: properties whose
\* value is undefined are not written.
JsonObject(o) ==
  Obj([f \in {g \in DOMAIN o : o[g].t # "undefined"} |-> o[f]])

\* JSON.stringify throws a TypeError on a BigInt property.
JsonThrows(o) == \E f \in DOMAIN o : o[f].t = "bigint"

\* Truthiness of a value, as tested by the ! operator.
Falsy(v) ==
  \/ v.t \in {"undefined", "null"}
  \/ v.t = "number" /\ v.n = 0
  \/ v.t = "string" /\ v.s = <<>>
  \/ v.t = "boolean" /\ ~v.b

\* Object spread { ...r, ...p }: properties of p overwrite those of r.
Spread(r, p) ==
  [f \in DOMAIN r \cup DOMAIN p |-> IF f \in DOMAIN p THEN p[f] ELSE r[f]]

(***************************************************************************)
(* ethers.isAddress, on addresses scaled down to two hex digits.  The      *)
(* address is /^(0x)?[0-9a-fA-F]{n}$/; a body that mixes upper and lower   *)
(* case letters must equal its checksummed form.  The checksum stands for  *)
(* the keccak-derived one: it upper-cases the letters at odd positions.    *)
(***************************************************************************)
HexLower == {"0", "1", "a", "b"}
HexUpper == {"A", "B"}
HexBodies == {<<x, y>> : x \in HexLower \cup HexUpper, y \in HexLower \cup HexUpper}

UpperChar(c) ==
  CASE c = "a" -> "A"
    [] c = "b" -> "B"
    [] OTHER -> c

ChecksumBody(b) ==
  [i \in 1..Len(b) |-> IF i % 2 = 1 THEN UpperChar(LowerChar(b[i])) ELSE LowerChar(b[i])]

HasPrefix(s) == Len(s) >= 2 /\ s[1] = "0" /\ s[2] = "x"

AddressBody(s) == IF HasPrefix(s) THEN SubSeq(s, 3, Len(s)) ELSE s

IsMixedCase(s) ==
  /\ \E i \in 1..Len(s) : s[i] \in HexUpper
  /\ \E i \in 1..Len(s) : s[i] \in {"a", "b"}

IsAddress(v) ==
  /\ v.t = "string"
  /\ AddressBody(v.s) \in HexBodies
  /\ IsMixedCase(v.s) => AddressBody(v.s) = ChecksumBody(AddressBody(v.s))

(***************************************************************************)
(* State of the registry: the TokenStorage singleton and localStorage.     *)
(***************************************************************************)
VARIABLES
  userTokens,     \* TokenStorage.userTokens: owner key -> list of records
  tokenMetadata,  \* TokenStorage.tokenMetadata: address key -> metadata
  storage,        \* localStorage: the three documents
  now,            \* Date.now()
  fault,          \* the localStorage key whose setItem throws, or "none"
  ops,            \* number of steps taken
  page,           \* the loaded page: wallet session, App state, hook, flows
  wallet,         \* the wallet extension: exposed accounts and chain
  events,         \* number of user and wallet events on the page
  manager         \* a useTokenManager instance: props, token list, selection

vars ==
  <<userTokens, tokenMetadata, storage, now, fault, ops, page, wallet, events, manager>>

\* localStorage.getItem of a key that was never set, or was removed.
Absent == [t |-> "absent"]

\* The three members of a TokenStorage together with its backing store.
Registry(ut, tm, st) == [ut |-> ut, tm |-> tm, st |-> st]

\* Map.prototype.get(k) || []
MapGetList(m, k) == IF k \in DOMAIN m THEN m[k] ELSE <<>>

\* Map.prototype.set
MapSet(m, k, v) == [x \in DOMAIN m \cup {k} |-> IF x = k THEN v ELSE m[x]]

\* new Map(): no keys.
EmptyMap == [x \in {} |-> <<>>]

\* token.address.toLowerCase() of a stored record
AddressKey(token) == ToLowerCase(token.address.s)

(***************************************************************************)
(* saveToStorage and loadFromStorage.                                      *)
(***************************************************************************)
\* JSON.stringify(Object.fromEntries(this.userTokens)) throws on a BigInt.
UserTokensThrows(ut) ==
  \E k \in DOMAIN ut : \E i \in 1..Len(ut[k]) : JsonThrows(ut[k][i])

\* JSON.stringify(Object.fromEntries(this.userTokens)), as JSON.parse reads it.
UserTokensDocument(ut) ==
  Obj([k \in DOMAIN ut |-> Arr([i \in 1..Len(ut[k]) |-> JsonObject(ut[k][i])])])

\* JSON.stringify(Object.fromEntries(this.tokenMetadata))
MetadataDocument(tm) == Obj([k \in DOMAIN tm |-> JsonObject(tm[k])])

\* The try block of saveToStorage: the three setItem calls in order, cut
\* short by the first exception (serialisation, or a setItem that throws).
SaveToStorage(ut, tm, st, flt, time) ==
  IF UserTokensThrows(ut) \/ flt = "userTokens" THEN st
  ELSE LET s1 == [st EXCEPT !.userTokens = UserTokensDocument(ut)] IN
    IF flt = "tokenMetadata" THEN s1
    ELSE LET s2 == [s1 EXCEPT !.tokenMetadata = MetadataDocument(tm)] IN
      [s2 EXCEPT !.lastSync = Str(NumberToString(time))]

\* new Map(Object.entries(JSON.parse(doc))) for the user-token document.
LoadUserTokens(doc) ==
  IF doc = Absent THEN EmptyMap
  ELSE [k \in DOMAIN doc.o |-> [i \in 1..Len(doc.o[k].a) |-> doc.o[k].a[i].o]]

\* new Map(Object.entries(JSON.parse(doc))) for the metadata document.
LoadMetadata(doc) ==
  IF doc = Absent THEN EmptyMap ELSE [k \in DOMAIN doc.o |-> doc.o[k].o]

(***************************************************************************)
(* The operations of TokenStorage, as functions of a Registry.             *)
(***************************************************************************)
\* Array.prototype.findIndex for the address comparison; 0 stands for -1.
FindIndex(list, key) ==
  IF \E i \in 1..Len(list) : AddressKey(list[i]) = key
  THEN CHOOSE i \in 1..Len(list) :
         /\ AddressKey(list[i]) = key
         /\ \A j \in 1..(i - 1) : AddressKey(list[j]) # key
  ELSE 0

\* addUserToken with the findIndex comparison made on the addresses as
\* written, without toLowerCase.
AddUserTokenCaseSensitive(R, userAddress, token, flt, time) ==
  LET normalizedAddress == ToLowerCase(userAddress)
      list == MapGetList(R.ut, normalizedAddress)
      found == {i \in 1..Len(list) : list[i].address.s = token.address.s}
      newList == IF found # {}
                 THEN LET existingIndex == CHOOSE i \in found : \A j \in found : i <= j
                      IN [list EXCEPT ![existingIndex] = Spread(list[existingIndex], token)]
                 ELSE Append(list, token)
      ut == MapSet(R.ut, normalizedAddress, newList)
  IN Registry(ut, R.tm, SaveToStorage(ut, R.tm, R.st, flt, time))

\* addUserToken with the push alone, without the findIndex lookup.
AddUserTokenAppending(R, userAddress, token, flt, time) ==
  LET normalizedAddress == ToLowerCase(userAddress)
      list == MapGetList(R.ut, normalizedAddress)
      ut == MapSet(R.ut, normalizedAddress, Append(list, token))
  IN Registry(ut, R.tm, SaveToStorage(ut, R.tm, R.st, flt, time))

\* addUserToken with tokens[existingIndex] = token, without the spread of
\* the stored record.
AddUserTokenReplacing(R, userAddress, token, flt, time) ==
  LET normalizedAddress == ToLowerCase(userAddress)
      list == MapGetList(R.ut, normalizedAddress)
      existingIndex == FindIndex(list, ToLowerCase(token.address.s))
      newList == IF existingIndex > 0
                 THEN [list EXCEPT ![existingIndex] = token]
                 ELSE Append(list, token)
      ut == MapSet(R.ut, normalizedAddress, newList)
  IN Registry(ut, R.tm, SaveToStorage(ut, R.tm, R.st, flt, time))

AddUserToken(R, userAddress, token, flt, time) ==
  LET normalizedAddress == ToLowerCase(userAddress)
      list == MapGetList(R.ut, normalizedAddress)
      existingIndex == FindIndex(list, ToLowerCase(token.address.s))
      newList == IF existingIndex > 0
                 THEN [list EXCEPT ![existingIndex] = Spread(list[existingIndex], token)]
                 ELSE Append(list, token)
      ut == MapSet(R.ut, normalizedAddress, newList)
  IN Registry(ut, R.tm, SaveToStorage(ut, R.tm, R.st, flt, time))

\* this.tokenMetadata.get(key): the stored object, or undefined.
MetadataGet(tm, key) == IF key \in DOMAIN tm THEN Obj(tm[key]) ELSE Undefined

\* getUserTokens with the metadata looked up under the address as stored,
\* without toLowerCase.
GetUserTokensExactKey(R, userAddress) ==
  LET list == MapGetList(R.ut, ToLowerCase(userAddress))
  IN [i \in 1..Len(list) |->
        Spread(list[i], [metadata |-> MetadataGet(R.tm, list[i].address.s)])]

GetUserTokens(R, userAddress) ==
  LET list == MapGetList(R.ut, ToLowerCase(userAddress))
  IN [i \in 1..Len(list) |->
        Spread(list[i], [metadata |-> MetadataGet(R.tm, AddressKey(list[i]))])]

\* Array.prototype.find: the first match, or undefined.
GetToken(R, userAddress, tokenAddress) ==
  LET tokens == GetUserTokens(R, userAddress)
      i == FindIndex(tokens, ToLowerCase(tokenAddress))
  IN IF i > 0 THEN Obj(tokens[i]) ELSE Undefined

\* updateTokenMetadata with the patch spread after the time stamp.
UpdateTokenMetadataPatchLast(R, tokenAddress, metadata, flt, time) ==
  LET normalizedAddress == ToLowerCase(tokenAddress)
      existing == IF normalizedAddress \in DOMAIN R.tm
                  THEN R.tm[normalizedAddress]
                  ELSE [lastUpdated |-> Num(0)]
      tm == MapSet(R.tm, normalizedAddress,
                   Spread(Spread(existing, [lastUpdated |-> Num(time)]), metadata))
  IN Registry(R.ut, tm, SaveToStorage(R.ut, tm, R.st, flt, time))

UpdateTokenMetadata(R, tokenAddress, metadata, flt, time) ==
  LET normalizedAddress == ToLowerCase(tokenAddress)
      existing == IF normalizedAddress \in DOMAIN R.tm
                  THEN R.tm[normalizedAddress]
                  ELSE [lastUpdated |-> Num(0)]
      tm == MapSet(R.tm, normalizedAddress,
                   Spread(Spread(existing, metadata), [lastUpdated |-> Num(time)]))
  IN Registry(R.ut, tm, SaveToStorage(R.ut, tm, R.st, flt, time))

\* removeUserToken with the filter comparing the addresses as written.
RemoveUserTokenCaseSensitive(R, userAddress, tokenAddress, flt, time) ==
  LET normalizedUserAddress == ToLowerCase(userAddress)
      list == MapGetList(R.ut, normalizedUserAddress)
      filteredTokens == SelectSeq(list, LAMBDA token : token.address.s # tokenAddress)
      ut == MapSet(R.ut, normalizedUserAddress, filteredTokens)
  IN Registry(ut, R.tm, SaveToStorage(ut, R.tm, R.st, flt, time))

RemoveUserToken(R, userAddress, tokenAddress, flt, time) ==
  LET normalizedUserAddress == ToLowerCase(userAddress)
      normalizedTokenAddress == ToLowerCase(tokenAddress)
      list == MapGetList(R.ut, normalizedUserAddress)
      filteredTokens == SelectSeq(list, LAMBDA token : AddressKey(token) # normalizedTokenAddress)
      ut == MapSet(R.ut, normalizedUserAddress, filteredTokens)
  IN Registry(ut, R.tm, SaveToStorage(ut, R.tm, R.st, flt, time))

\* searchTokens matching against the query as typed, without toLowerCase.
SearchTokensRawQuery(R, userAddress, query) ==
  SelectSeq(GetUserTokens(R, userAddress), LAMBDA token :
    \/ Includes(ToLowerCase(token.name.s), query)
    \/ Includes(ToLowerCase(token.symbol.s), query)
    \/ Includes(ToLowerCase(token.address.s), query))

SearchTokens(R, userAddress, query) ==
  LET lowerQuery == ToLowerCase(query)
  IN SelectSeq(GetUserTokens(R, userAddress), LAMBDA token :
       \/ Includes(ToLowerCase(token.name.s), lowerQuery)
       \/ Includes(ToLowerCase(token.symbol.s), lowerQuery)
       \/ Includes(ToLowerCase(token.address.s), lowerQuery))

ClearAllData(R) ==
  Registry(EmptyMap, EmptyMap,
           [userTokens |-> Absent, tokenMetadata |-> Absent, lastSync |-> Absent])

\* isValidToken: a property read on null or undefined throws; typeof and
\* ethers.isAddress decide the rest.
IsValidTokenThrows(token) == GetThrows(token)

IsValidToken(token) ==
  /\ TypeOf(GetProp(token, "address")) = "string"
  /\ TypeOf(GetProp(token, "name")) = "string"
  /\ TypeOf(GetProp(token, "symbol")) = "string"
  /\ TypeOf(GetProp(token, "creator")) = "string"
  /\ TypeOf(GetProp(token, "decimals")) = "number"
  /\ TypeOf(GetProp(token, "createdAt")) = "number"
  /\ IsAddress(GetProp(token, "address"))
  /\ IsAddress(GetProp(token, "creator"))

\* The for loop of importUserData from entry i on: [reg, ret].
RECURSIVE ImportLoop(_, _, _, _, _, _)
ImportLoop(R, userAddress, tokens, i, flt, time) ==
  IF i > Len(tokens) THEN [reg |-> R, ret |-> Bool(TRUE)]
  ELSE IF IsValidTokenThrows(tokens[i]) THEN [reg |-> R, ret |-> Bool(FALSE)]
  ELSE IF IsValidToken(tokens[i])
       THEN ImportLoop(AddUserToken(R, userAddress, tokens[i].o, flt, time),
                       userAddress, tokens, i + 1, flt, time)
       ELSE ImportLoop(R, userAddress, tokens, i + 1, flt, time)

\* importUserData(userAddress, data), data given as JSON.parse reads it.
ImportUserData(R, userAddress, parsed, flt, time) ==
  IF parsed = NotJson \/ GetThrows(parsed) THEN [reg |-> R, ret |-> Bool(FALSE)]
  ELSE IF Falsy(GetProp(parsed, "tokens")) \/ GetProp(parsed, "tokens").t # "array"
       THEN [reg |-> R, ret |-> Bool(FALSE)]
  ELSE ImportLoop(R, userAddress, GetProp(parsed, "tokens").a, 1, flt, time)

\* exportUserData throws when JSON.stringify meets a BigInt.
ExportThrows(R, userAddress) ==
  LET tokens == GetUserTokens(R, userAddress)
  IN \E i \in 1..Len(tokens) : JsonThrows(tokens[i])

\* The document of exportUserData, as JSON.parse reads it.
ExportUserData(R, userAddress, time) ==
  LET tokens == GetUserTokens(R, userAddress)
  IN Obj([userAddress |-> Str(userAddress),
          tokens |-> Arr([i \in 1..Len(tokens) |-> JsonObject(tokens[i])]),
          exportedAt |-> Str(NumberToString(time)),
          version |-> Str(<<"1", ".", "0">>)])

\* importUserData(newOwner, exportUserData(owner)): an exception of the
\* export reaches the caller and the import is not made.
ExportImport(R, owner, newOwner, flt, time) ==
  IF ExportThrows(R, owner) THEN R
  ELSE ImportUserData(R, newOwner, ExportUserData(R, owner, time), flt, time).reg

\* getStorageStats().totalUsers
TotalUsers(R) == Cardinality(DOMAIN R.ut)

(***************************************************************************)
(* syncWithBlockchain (useTokenManager): each factory tuple becomes a      *)
(* UserToken and goes through addUserToken.                                *)
(***************************************************************************)
EdgenChain == <<"E", "d", "g", "e", "n", " ", "C", "h", "a", "i", "n">>

FactoryUserToken(factoryToken, chainId) ==
  [address |-> factoryToken.tokenAddress,
   name |-> factoryToken.name,
   symbol |-> factoryToken.symbol,
   initialSupply |-> Str(NumberToString(factoryToken.initialSupply.n)),
   maxSupply |-> Str(NumberToString(factoryToken.maxSupply.n)),
   decimals |-> factoryToken.decimals,
   creator |-> factoryToken.creator,
   createdAt |-> Num(factoryToken.createdAt.n * 1000),
   transactionHash |-> Str(<<>>),
   network |-> Str(EdgenChain),
   chainId |-> chainId]

RECURSIVE SyncLoop(_, _, _, _, _, _)
SyncLoop(R, userAddress, factoryTokens, i, flt, time) ==
  IF i > Len(factoryTokens) THEN R
  ELSE SyncLoop(AddUserToken(R, userAddress,
                             FactoryUserToken(factoryTokens[i], Num(4207)), flt, time),
                userAddress, factoryTokens, i + 1, flt, time)

(***************************************************************************)
(* Inputs.                                                                 *)
(***************************************************************************)
UserToken(address, name, decimals, creator, transactionHash) ==
  [address |-> Str(address), name |-> Str(name), symbol |-> Str(<<"Z">>),
   initialSupply |-> Str(<<"1">>), maxSupply |-> Str(<<"2">>),
   decimals |-> decimals, creator |-> Str(creator), createdAt |-> Num(1),
   transactionHash |-> Str(transactionHash), network |-> Str(EdgenChain),
   chainId |-> Num(4207)]

AddrA == <<"0", "x", "a", "b">>
AddrAUpper == <<"0", "x", "A", "B">>
AddrB == <<"0", "x", "b", "a">>
AddrC == <<"0", "x", "1", "b">>
NotAnAddress == <<"z", "z">>

\* userAddress arguments; "a" and "A" name the same owner.
Owners == {<<"a">>, <<"A">>, <<"b">>}

TokA == UserToken(AddrA, <<"A", "b">>, Num(18), AddrA, <<"0", "x", "1">>)
TokBadCreator == UserToken(AddrB, <<"b">>, Num(18), NotAnAddress, <<"0", "x", "2">>)
\* createToken passes parsedEvent.args.decimals, which ethers decodes from
\* uint8 as a bigint.
TokCreated == UserToken(AddrC, <<"a">>, BigIntV(18), AddrA, <<"0", "x", "3">>)

TokenInputs == {TokA, TokBadCreator, TokCreated}

TokenAddresses == {AddrAUpper, AddrC}

\* A record as an import file may carry it: the validated properties only.
PartialToken(address, name, creator) ==
  [address |-> Str(address), name |-> Str(name), symbol |-> Str(<<"b">>),
   creator |-> Str(creator), decimals |-> Num(6), createdAt |-> Num(2)]

ImportDocument(tokens) == Obj([tokens |-> tokens, version |-> Str(<<"1", ".", "0">>)])

PayloadSkips ==
  ImportDocument(Arr(<<Obj(PartialToken(AddrAUpper, <<"z">>, AddrA)),
                       Obj(PartialToken(AddrB, <<"b">>, NotAnAddress)),
                       Num(5),
                       Obj(PartialToken(AddrC, <<"a">>, AddrAUpper))>>))
PayloadNull ==
  ImportDocument(Arr(<<Obj(PartialToken(AddrB, <<"b">>, AddrA)), Null,
                       Obj(PartialToken(AddrC, <<"a">>, AddrA))>>))
PayloadNoArray == ImportDocument(Str(<<"z">>))

\* A file holding one record that names only the validated properties.
PartialA == PartialToken(AddrAUpper, <<"z">>, AddrA)
PayloadOne == ImportDocument(Arr(<<Obj(PartialA)>>))

ImportPayloads == {PayloadOne, PayloadSkips, PayloadNull, PayloadNoArray}

FactoryToken(address, name) ==
  [tokenAddress |-> Str(address), name |-> Str(name), symbol |-> Str(<<"Z">>),
   initialSupply |-> BigIntV(1), maxSupply |-> BigIntV(2), decimals |-> BigIntV(18),
   creator |-> Str(AddrA), createdAt |-> BigIntV(1)]

FactoryResponses ==
  {<<FactoryToken(AddrC, <<"a">>)>>,
   <<FactoryToken(AddrA, <<"A", "b">>), FactoryToken(AddrC, <<"a">>)>>}

\* updateTokenMetadata arguments: an address and a partial metadata.
MetadataUpdates ==
  {<<AddrA, [description |-> Str(<<"d">>)]>>,
   <<AddrAUpper, [tags |-> Arr(<<Str(<<"t">>)>>)]>>,
   <<AddrAUpper, [description |-> Str(<<"e">>), lastUpdated |-> Num(9)]>>}

SearchQueries == {<<"B">>, <<"x", "a">>, <<"Z">>, <<"b", "z">>}

Faults == {"none", "userTokens", "tokenMetadata"}

(***************************************************************************)
(* The page: the wallet session of WalletConnect, the state of App, the    *)
(* useTokenManager instance of the mounted tab component, and the          *)
(* asynchronous flows that wait for an answer of the wallet bridge or of   *)
(* the factory contract.                                                   *)
(***************************************************************************)
\* edgenChainConfig.chainId, as the source spells it.
EdgenChainId == <<"0", "x", "1", "0", "6", "F">>

\* The chain checkConnection compares with: BigInt(4207); and another chain.
TargetChain == 4207
OtherChain == 1
ChainIds == {TargetChain, OtherChain}

\* The hexadecimal digits, in the two spellings a wallet may use.
HexDigits(spelling) ==
  IF spelling = "lower"
  THEN <<"0", "1", "2", "3", "4", "5", "6", "7", "8", "9", "a", "b", "c", "d", "e", "f">>
  ELSE <<"0", "1", "2", "3", "4", "5", "6", "7", "8", "9", "A", "B", "C", "D", "E", "F">>

RECURSIVE ToHex(_, _)
ToHex(n, spelling) ==
  IF n < 16 THEN <<HexDigits(spelling)[n + 1]>>
  ELSE ToHex(n \div 16, spelling) \o <<HexDigits(spelling)[(n % 16) + 1]>>

\* The answer of the wallet to eth_chainId: the chain as a hexadecimal
\* quantity.  The wallet chooses the case of the digits; MetaMask writes
\* them in lower case.
EthChainId(w) == <<"0", "x">> \o ToHex(w.chainId, w.hex)
HexSpellings == {"lower", "upper"}

\* error.code of wallet_switchEthereumChain for a chain the wallet lacks.
ChainNotAdded == 4902

\* The account lists the wallet exposes to the page.
AccountLists == {<<>>, <<AddrA>>, <<AddrB>>}

\* signer.getAddress(): the checksummed spelling of the primary account.
GetAddress(account) == <<"0", "x">> \o ChecksumBody(AddressBody(account))

\* provider.getBalance(address), in whole coins.
GetBalance(address) == IF ToLowerCase(address) = AddrA THEN 1 ELSE 2

\* ethers.formatEther
FormatEther(n) == NumberToString(n) \o <<".", "0">>

\* The signer of App before a wallet is connected: null.
NoSigner == <<>>

Tabs == {"portfolio", "factory", "mintable"}

\* error.message of a rejected request; it may be empty.
ErrorMessages == {"", "User rejected the request."}

\* useState initial values of WalletConnect.
InitialSession ==
  [isConnected |-> FALSE, address |-> <<>>, isConnecting |-> FALSE,
   error |-> "", networkStatus |-> "unknown", balance |-> <<"0">>]

\* useState initial values of App.
InitialApp ==
  [provider |-> FALSE, signer |-> NoSigner, userAddress |-> <<>>,
   activeTab |-> "portfolio"]

\* No tab component is mounted: there is no useTokenManager instance.
NoHook == [mounted |-> FALSE, userTokens |-> 0]

\* checkConnection waiting for the answer to eth_accounts.
NewCheck == [pc |-> "accounts", address |-> <<>>]

\* The page after a load: initial state everywhere, and the mount-time
\* checkConnection in flight.  connectedSince records whether
\* onWalletConnected was invoked since connect() was last started; notified
\* is the account of the last non-empty accountsChanged notification that
\* nothing has superseded; handled names the step the page took last.
InitialPage ==
  [session |-> InitialSession, app |-> InitialApp, connect |-> "idle",
   checks |-> {NewCheck}, hook |-> NoHook, syncs |-> {}, autoSyncs |-> 0,
   connectedSince |-> FALSE, notified |-> <<>>, handled |-> "load"]

\* App renders a tab component only with provider, signer and userAddress.
ShouldMount(app) == app.provider /\ app.signer # NoSigner /\ app.userAddress # <<>>

\* loadTokens: the number of the user's records of chain 4207.
LoadTokens(R, userAddress) ==
  Len(SelectSeq(GetUserTokens(R, userAddress),
                LAMBDA token : "chainId" \in DOMAIN token /\ token.chainId = Num(4207)))

\* The auto-sync effect calls syncWithBlockchain: the call to
\* getTokensByCreator is in flight for the mounted instance.
StartSync(P) ==
  [P EXCEPT !.syncs = @ \cup {[address |-> P.app.userAddress, live |-> TRUE]},
            !.autoSyncs = @ + 1]

\* The syncs of instances that have been unmounted.
Orphaned(syncs) == {[address |-> s.address, live |-> FALSE] : s \in syncs}

\* React renders App after a state change from the page before to the page
\* P and runs the effects of useTokenManager.  A component that mounts
\* starts with userTokens = [] and its auto-sync effect sees that list; a
\* component that stays mounted runs the effect again when the signer
\* changed, with the list of the current render.
Rendered(before, P, R, signerChanged) ==
  IF ~ShouldMount(P.app)
  THEN [P EXCEPT !.hook = NoHook, !.syncs = Orphaned(@)]
  ELSE IF ~before.hook.mounted \/ before.app.activeTab # P.app.activeTab
       THEN StartSync([P EXCEPT
              !.hook = [mounted |-> TRUE,
                        userTokens |-> LoadTokens(R, P.app.userAddress)],
              !.syncs = Orphaned(@)])
       ELSE LET loaded ==
                  [P EXCEPT !.hook.userTokens =
                     IF P.app.userAddress # before.app.userAddress
                     THEN LoadTokens(R, P.app.userAddress) ELSE @]
            IN IF signerChanged /\ before.hook.userTokens = 0
               THEN StartSync(loaded) ELSE loaded

\* The render of App, the pages before and after taken as values.
Render(before, P, R, signerChanged) ==
  CHOOSE Q \in {Rendered(b, p, R, signerChanged) : b \in {before}, p \in {P}} : TRUE

\* App.handleWalletConnected, and the render that follows.
HandleWalletConnected(P, address, R) ==
  Render(P, [P EXCEPT !.app.provider = TRUE, !.app.signer = address,
                      !.app.userAddress = address, !.connectedSince = TRUE],
         R, TRUE)

\* App.handleWalletDisconnected, and the render that follows.
HandleWalletDisconnected(P, R) ==
  Render(P, [P EXCEPT !.app.provider = FALSE, !.app.signer = NoSigner,
                      !.app.userAddress = <<>>],
         R, TRUE)

\* disconnectWallet: the four setters, then onWalletDisconnected.
DisconnectWalletWithRequest(P, R) ==
  HandleWalletDisconnected(
    [P EXCEPT !.session.isConnected = FALSE, !.session.address = <<>>,
              !.session.balance = <<"0">>, !.session.networkStatus = "unknown",
              !.notified = <<>>, !.checks = @ \cup {NewCheck}], R)

DisconnectWallet(P, R) ==
  HandleWalletDisconnected(
    [P EXCEPT !.session.isConnected = FALSE, !.session.address = <<>>,
              !.session.balance = <<"0">>, !.session.networkStatus = "unknown",
              !.notified = <<>>], R)

\* handleAccountsChanged with the empty branch leaving the address and the
\* network status as they are.
HandleAccountsChangedKeepsAddress(P, accounts, R) ==
  IF accounts = <<>>
  THEN HandleWalletDisconnected(
         [P EXCEPT !.session.isConnected = FALSE,
                   !.session.balance = <<"0">>, !.notified = <<>>], R)
  ELSE [P EXCEPT !.session.address = accounts[1],
                 !.checks = @ \cup {NewCheck},
                 !.notified = accounts[1]]

HandleAccountsChanged(P, accounts, R) ==
  IF accounts = <<>>
  THEN HandleWalletDisconnected(
         [P EXCEPT !.session.isConnected = FALSE, !.session.address = <<>>,
                   !.session.balance = <<"0">>, !.session.networkStatus = "unknown",
                   !.notified = <<>>], R)
  ELSE [P EXCEPT !.session.address = accounts[1],
                 !.checks = @ \cup {NewCheck},
                 !.notified = accounts[1]]

\* handleChainChanged writing the network status instead of reloading.
HandleChainChangedInPlace(P) == [P EXCEPT !.session.networkStatus = "wrong"]

\* handleChainChanged: window.location.reload(); the page starts anew.
HandleChainChanged(P) == InitialPage

\* checkConnection, eth_accounts answered: without accounts it ends; with
\* accounts the signer is resolved and the network is asked for.
CheckAccounts(P, c, w) ==
  [P EXCEPT !.checks =
     IF w.accounts = <<>> THEN @ \ {c}
     ELSE (@ \ {c}) \cup {[pc |-> "network", address |-> GetAddress(w.accounts[1])]}]

\* checkConnection comparing the hexadecimal chain id with the configured
\* string, as connectWallet does, in place of network.chainId with 4207.
CheckNetworkComparesHex(P, c, w) ==
  [P EXCEPT !.session.networkStatus =
              IF EthChainId(w) = EdgenChainId THEN "correct" ELSE "wrong",
            !.checks = (@ \ {c}) \cup {[pc |-> "balance", address |-> c.address]}]

\* checkConnection, getNetwork answered: the network status is set and the
\* balance is asked for.
CheckNetwork(P, c, w) ==
  [P EXCEPT !.session.networkStatus =
              IF w.chainId = TargetChain THEN "correct" ELSE "wrong",
            !.checks = (@ \ {c}) \cup {[pc |-> "balance", address |-> c.address]}]

\* checkConnection ending after setAddress, without onWalletConnected.
CheckBalanceWithoutCallback(P, c, R) ==
  [P EXCEPT !.session.balance = FormatEther(GetBalance(c.address)),
            !.session.isConnected = TRUE,
            !.session.address = c.address,
            !.checks = @ \ {c}]

\* checkConnection, getBalance answered: balance, isConnected and address
\* are set and onWalletConnected is invoked.
CheckBalance(P, c, R) ==
  HandleWalletConnected(
    [P EXCEPT !.session.balance = FormatEther(GetBalance(c.address)),
              !.session.isConnected = TRUE,
              !.session.address = c.address,
              !.checks = @ \ {c}],
    c.address, R)

\* checkConnection, an await rejected: the catch sets the status unknown.
CheckFails(P, c) ==
  [P EXCEPT !.session.networkStatus = "unknown", !.checks = @ \ {c},
            !.notified = <<>>]

\* connectWallet up to its first await (eth_requestAccounts).
ConnectWallet(P) ==
  [P EXCEPT !.session.isConnecting = TRUE, !.session.error = "",
            !.connect = "request", !.connectedSince = FALSE]

\* connectWallet, eth_requestAccounts answered: eth_chainId is asked for.
ConnectRequested(P) == [P EXCEPT !.connect = "chainId"]

\* connectWallet, eth_chainId answered: on another chain the switch is
\* requested, on the Edgen chain the signer.
ConnectChainId(P, w) ==
  [P EXCEPT !.connect = IF EthChainId(w) # EdgenChainId THEN "switch" ELSE "signer"]

\* connectWallet, the signer resolved: the try block completes and the
\* finally block ends the call.
ConnectSigner(P, w, R) ==
  HandleWalletConnected(
    [P EXCEPT !.session.isConnected = TRUE,
              !.session.address = GetAddress(w.accounts[1]),
              !.session.isConnecting = FALSE,
              !.connect = "idle"],
    GetAddress(w.accounts[1]), R)

\* connectWallet, an await rejected: catch and finally.
ConnectFails(P, message) ==
  [P EXCEPT !.session.error =
              IF message = "" THEN "Failed to connect wallet" ELSE message,
            !.session.isConnecting = FALSE,
            !.connect = "idle"]

\* switchToEdgenChain returns without error, after the switch or after the
\* add: connectWallet goes on to the signer.
ConnectSwitched(P) == [P EXCEPT !.connect = "signer"]

\* The wallet on the chain chainId: it emits chainChanged when that is not
\* the chain it was on.
WalletSwitches(w, chainId) ==
  [w EXCEPT !.chainId = chainId, !.chainChanged = @ \/ w.chainId # chainId]

\* switchToEdgenChain, the switch rejected with the code of the error: an
\* unknown chain leads to wallet_addEthereumChain, anything else is thrown
\* to the catch of connectWallet.
ConnectSwitchRejected(P, code, message) ==
  IF code = ChainNotAdded THEN [P EXCEPT !.connect = "add"]
  ELSE ConnectFails(P, message)

\* The error codes of a rejected switch: the chain is unknown to the
\* wallet, or the user refused.
SwitchErrorCodes == {ChainNotAdded, 4001}

\* syncWithBlockchain after getTokensByCreator answered: loadTokens of the
\* instance that started it, if that instance is still mounted.  R is the
\* registry after the loop of addUserToken.
SyncLoaded(P, s, R) ==
  [P EXCEPT !.syncs = @ \ {s},
            !.hook.userTokens = IF s.live THEN LoadTokens(R, s.address) ELSE @]

\* syncWithBlockchain after getTokensByCreator rejected.
SyncFails(P, s) == [P EXCEPT !.syncs = @ \ {s}]

(***************************************************************************)
(* One useTokenManager instance with its selection.  chainId is the        *)
(* default 4207 that every caller takes.  A callback runs with the closure *)
(* of the render it was created in: the userAddress prop and the           *)
(* selectedToken state of that render.                                     *)
(***************************************************************************)
\* useState initial values, for the userAddress prop.
NewManager(userAddress) ==
  [userAddress |-> userAddress, userTokens |-> <<>>, selectedToken |-> Null,
   syncs |-> {}]

\* The closure of the current render.
Closure(M) == [userAddress |-> M.userAddress, selectedToken |-> M.selectedToken]

\* tokens.filter(token => token.chainId === chainId)
NetworkTokens(R, userAddress) ==
  SelectSeq(GetUserTokens(R, userAddress),
            LAMBDA token : "chainId" \in DOMAIN token /\ token.chainId = Num(4207))

\* loadTokens with the closure cl, on the state M of the hook.
LoadTokensOf(M, R, cl) ==
  IF cl.userAddress = <<>> THEN M
  ELSE LET networkTokens == NetworkTokens(R, cl.userAddress)
           first == IF cl.selectedToken = Null /\ Len(networkTokens) > 0
                    THEN Obj(networkTokens[1]) ELSE M.selectedToken
           selected == IF cl.selectedToken # Null
                          /\ GetProp(cl.selectedToken, "chainId") # Num(4207)
                       THEN Null ELSE first
       IN [M EXCEPT !.userTokens = networkTokens, !.selectedToken = selected]

\* The load effect: it runs loadTokens again for as long as a render changed
\* a dependency of loadTokens, here the selection.
RECURSIVE Effects(_, _)
Effects(M, R) ==
  LET loaded == LoadTokensOf(M, R, Closure(M))
  IN IF loaded.selectedToken = M.selectedToken THEN loaded ELSE Effects(loaded, R)

\* The render after a callback that took the hook from before to M: the load
\* effect runs when userAddress or selectedToken changed.
Settle(before, M, R) ==
  IF M.selectedToken = before.selectedToken /\ M.userAddress = before.userAddress
  THEN M ELSE Effects(M, R)

\* userTokens.find(t => t.address.toLowerCase() === tokenAddress.toLowerCase())
FindToken(list, tokenAddress) ==
  IF FindIndex(list, ToLowerCase(tokenAddress)) > 0
  THEN Obj(list[FindIndex(list, ToLowerCase(tokenAddress))]) ELSE Null

\* selectToken, and the effects that follow.
SelectToken(M, R, tokenAddress) ==
  Settle(M, [M EXCEPT !.selectedToken = FindToken(M.userTokens, tokenAddress)], R)

\* addToken, and the effects that follow: [m, reg].
AddToken(M, R, token, flt, time) ==
  IF M.userAddress = <<>> THEN [m |-> M, reg |-> R]
  ELSE LET added == AddUserToken(R, M.userAddress, token, flt, time)
           loaded == LoadTokensOf(M, added, Closure(M))
       IN [m |-> Settle(M, [loaded EXCEPT !.selectedToken = Obj(token)], added),
           reg |-> added]

\* removeToken, and the effects that follow: [m, reg].
RemoveToken(M, R, tokenAddress, flt, time) ==
  IF M.userAddress = <<>> THEN [m |-> M, reg |-> R]
  ELSE LET removed == RemoveUserToken(R, M.userAddress, tokenAddress, flt, time)
           loaded == LoadTokensOf(M, removed, Closure(M))
           cleared == IF M.selectedToken # Null
                         /\ ToLowerCase(M.selectedToken.o.address.s)
                              = ToLowerCase(tokenAddress)
                      THEN [loaded EXCEPT !.selectedToken = Null] ELSE loaded
       IN [m |-> Settle(M, cleared, removed), reg |-> removed]

\* The parent renders the hook with another userAddress, without unmounting
\* it; the effects follow.
SetUserAddress(M, R, userAddress) ==
  Settle(M, [M EXCEPT !.userAddress = userAddress], R)

\* syncWithBlockchain up to its await: the call keeps the closure of its
\* render.
SyncStarted(M) == [M EXCEPT !.syncs = @ \cup {Closure(M)}]

\* syncWithBlockchain after getTokensByCreator answered: the loop of
\* addUserToken and loadTokens, both of the closure cl; then the effects.
SyncFinished(M, R, cl, factoryTokens, flt, time) ==
  LET synced == SyncLoop(R, cl.userAddress, factoryTokens, 1, flt, time)
      rest == [M EXCEPT !.syncs = @ \ {cl}]
  IN [m |-> Settle(M, LoadTokensOf(rest, synced, cl), synced), reg |-> synced]

(***************************************************************************)
(* The state machine.                                                      *)
(***************************************************************************)
Reg == Registry(userTokens, tokenMetadata, storage)

\* The members of the singleton and the store take the values of R.
Becomes(R) ==
  /\ userTokens' = R.ut
  /\ tokenMetadata' = R.tm
  /\ storage' = R.st

Called ==
  /\ ops < MaxOps
  /\ ops' = ops + 1
  /\ UNCHANGED <<page, wallet, events, manager>>

Init ==
  /\ userTokens = EmptyMap
  /\ tokenMetadata = EmptyMap
  /\ storage = [userTokens |-> Absent, tokenMetadata |-> Absent, lastSync |-> Absent]
  /\ now = 1
  /\ fault = "none"
  /\ ops = 0
  /\ page = InitialPage
  /\ wallet = [accounts |-> <<>>, chainId |-> TargetChain, hex |-> "lower",
               chainChanged |-> FALSE]
  /\ events = 0
  /\ manager = NewManager(<<>>)

DoAddUserToken(userAddress, token) ==
  /\ Called
  /\ Becomes(AddUserToken(Reg, userAddress, token, fault, now))
  /\ UNCHANGED <<now, fault>>

DoRemoveUserToken(userAddress, tokenAddress) ==
  /\ Called
  /\ Becomes(RemoveUserToken(Reg, userAddress, tokenAddress, fault, now))
  /\ UNCHANGED <<now, fault>>

DoUpdateTokenMetadata(tokenAddress, metadata) ==
  /\ Called
  /\ Becomes(UpdateTokenMetadata(Reg, tokenAddress, metadata, fault, now))
  /\ UNCHANGED <<now, fault>>

DoImportUserData(userAddress, parsed) ==
  /\ Called
  /\ LET r == ImportUserData(Reg, userAddress, parsed, fault, now)
     IN Becomes(r.reg)
  /\ UNCHANGED <<now, fault>>

DoExportImport(owner, newOwner) ==
  /\ Called
  /\ Becomes(ExportImport(Reg, owner, newOwner, fault, now))
  /\ UNCHANGED <<now, fault>>

DoSyncWithBlockchain(userAddress, factoryTokens) ==
  /\ Called
  /\ Becomes(SyncLoop(Reg, userAddress, factoryTokens, 1, fault, now))
  /\ UNCHANGED <<now, fault>>

DoClearAllData ==
  /\ Called
  /\ Becomes(ClearAllData(Reg))
  /\ UNCHANGED <<now, fault>>

\* A page load constructs the singleton anew: loadFromStorage.
DoLoadFromStorage ==
  /\ Called
  /\ userTokens' = LoadUserTokens(storage.userTokens)
  /\ tokenMetadata' = LoadMetadata(storage.tokenMetadata)
  /\ UNCHANGED <<storage, now, fault>>

\* Time passes.
Tick ==
  /\ Called
  /\ now < MaxTime
  /\ now' = now + 1
  /\ UNCHANGED <<userTokens, tokenMetadata, storage, fault>>

\* localStorage starts or stops refusing the writes of one key.
SetFault(f) ==
  /\ Called
  /\ f # fault
  /\ fault' = f
  /\ UNCHANGED <<userTokens, tokenMetadata, storage, now>>

Next ==
  \/ \E u \in Owners, tk \in TokenInputs : DoAddUserToken(u, tk)
  \/ \E u \in Owners, a \in TokenAddresses : DoRemoveUserToken(u, a)
  \/ \E m \in MetadataUpdates : DoUpdateTokenMetadata(m[1], m[2])
  \/ \E u \in Owners, p \in ImportPayloads : DoImportUserData(u, p)
  \/ \E u \in Owners, n \in Owners : DoExportImport(u, n)
  \/ \E u \in Owners, f \in FactoryResponses : DoSyncWithBlockchain(u, f)
  \/ DoClearAllData
  \/ DoLoadFromStorage
  \/ Tick
  \/ \E f \in Faults : SetFault(f)

Spec == Init /\ [][Next]_vars

TypeOK ==
  /\ now \in 1..MaxTime
  /\ ops \in 0..MaxOps
  /\ fault \in Faults

(***************************************************************************)
(* Properties of the registry.  Each is stated of the calls that can be    *)
(* made in a reachable state, under the fault and the time of that state.  *)
(***************************************************************************)
\* A further call is within the bound of the behaviour.
CanCall == ops < MaxOps

\* The tokens addUserToken can be handed: typed UserTokens, and the
\* validated record of an import file.
AddInputs == TokenInputs \cup {PartialA}

\* The addresses of a list of records, lower-cased, in order.
AddressKeys(list) == [i \in 1..Len(list) |-> AddressKey(list[i])]

\* The elements of a sequence.
Range(q) == {q[i] : i \in 1..Len(q)}

\* Some record of the owner has the address, ignoring case.
Holds(ut, u, a) ==
  ToLowerCase(a) \in Range(AddressKeys(MapGetList(ut, ToLowerCase(u))))

\* C1: in every reachable state no owner's list holds two records with the
\* same address ignoring case and no two owner keys are equal ignoring case;
\* addUserToken with an address the owner already holds leaves the length of
\* getUserTokens(owner) unchanged.
C1_NoDuplicateRecord ==
  /\ \A k \in DOMAIN userTokens : \A i, j \in 1..Len(userTokens[k]) :
       AddressKey(userTokens[k][i]) = AddressKey(userTokens[k][j]) => i = j
  /\ \A k1, k2 \in DOMAIN userTokens :
       ToLowerCase(k1) = ToLowerCase(k2) => k1 = k2
  /\ \A u \in Owners, tk \in AddInputs :
       CanCall /\ Holds(userTokens, u, tk.address.s)
         => Len(GetUserTokens(AddUserToken(Reg, u, tk, fault, now), u))
              = Len(GetUserTokens(Reg, u))

\* C1 witness: TokA was added and then re-added under the upper-case
\* spelling of its address through an import; the owner holds one record.
C1_Witness ==
  \E k \in DOMAIN userTokens :
    /\ Len(userTokens[k]) = 1
    /\ userTokens[k][1] = Spread(TokA, PartialA)

\* C2: when addUserToken(owner, t) finds a record r with the same address
\* ignoring case, the record at r's position afterwards has every property
\* of t with t's value and every other property of r with r's value, and
\* no other position of the list changes.
C2_ReAddMerges ==
  \A u \in Owners, tk \in AddInputs :
    CanCall /\ Holds(userTokens, u, tk.address.s)
      => LET old == MapGetList(userTokens, ToLowerCase(u))
             new == MapGetList(AddUserToken(Reg, u, tk, fault, now).ut, ToLowerCase(u))
         IN /\ Len(new) = Len(old)
            /\ \A i \in 1..Len(old) :
                 IF AddressKey(old[i]) = ToLowerCase(tk.address.s)
                 THEN /\ DOMAIN new[i] = DOMAIN old[i] \cup DOMAIN tk
                      /\ \A f \in DOMAIN tk : new[i][f] = tk[f]
                      /\ \A f \in DOMAIN old[i] \ DOMAIN tk : new[i][f] = old[i][f]
                 ELSE new[i] = old[i]

\* C2 witness: an owner's second record is TokCreated overwritten by the
\* partial record of an import for the same address: the transaction hash
\* is TokCreated's and the decimals are the import's.
C2_Witness ==
  \E k \in DOMAIN userTokens :
    /\ Len(userTokens[k]) >= 2
    /\ \E i \in 2..Len(userTokens[k]) :
         /\ "transactionHash" \in DOMAIN userTokens[k][i]
         /\ userTokens[k][i].transactionHash = TokCreated.transactionHash
         /\ userTokens[k][i].decimals = PartialA.decimals

\* The list new has the surviving addresses of the list old in their old
\* order, followed by the addresses that old did not have.
OrderKept(old, new) ==
  \A ko \in {AddressKeys(old)}, kn \in {AddressKeys(new)} :
    \A so \in {Range(ko)}, sn \in {Range(kn)} :
      /\ SelectSeq(kn, LAMBDA a : a \in so) = SelectSeq(ko, LAMBDA a : a \in sn)
      /\ \A i, j \in 1..Len(kn) : i < j /\ kn[i] \notin so => kn[j] \notin so

\* Every owner's list of the map ut keeps the order of the current state.
KeepsOrder(ut) == \A k \in DOMAIN ut : OrderKept(MapGetList(userTokens, k), ut[k])

\* C3: getUserTokens(owner) returns exactly the owner's stored records in
\* stored order, each with the metadata recorded under its lower-cased
\* address (undefined if none), the same for every owner; every call of the
\* registry keeps the stored order of the addresses it keeps and puts new
\* addresses last; for an owner without records and a token without
\* metadata, addUserToken then getUserTokens yields exactly that token with
\* metadata undefined.
C3_GetUserTokens ==
  /\ \A u \in Owners :
       LET got == GetUserTokens(Reg, u)
           stored == MapGetList(userTokens, ToLowerCase(u))
       IN /\ Len(got) = Len(stored)
          /\ \A i \in 1..Len(got) :
               /\ DOMAIN got[i] = DOMAIN stored[i] \cup {"metadata"}
               /\ \A f \in DOMAIN stored[i] \ {"metadata"} : got[i][f] = stored[i][f]
               /\ got[i].metadata =
                    IF ToLowerCase(got[i].address.s) \in DOMAIN tokenMetadata
                    THEN Obj(tokenMetadata[ToLowerCase(got[i].address.s)])
                    ELSE Undefined
  /\ \A all \in {UNION {Range(GetUserTokens(Reg, u)) : u \in Owners}} :
       \A r, q \in all : AddressKey(r) = AddressKey(q) => r.metadata = q.metadata
  /\ \A u \in Owners :
       CanCall =>
       /\ \A tk \in AddInputs :
            \A ut \in {AddUserToken(Reg, u, tk, fault, now).ut} : KeepsOrder(ut)
       /\ \A a \in TokenAddresses :
            \A ut \in {RemoveUserToken(Reg, u, a, fault, now).ut} : KeepsOrder(ut)
       /\ \A p \in ImportPayloads :
            \A ut \in {ImportUserData(Reg, u, p, fault, now).reg.ut} : KeepsOrder(ut)
       /\ \A n \in Owners :
            \A ut \in {ExportImport(Reg, u, n, fault, now).ut} : KeepsOrder(ut)
       /\ \A f \in FactoryResponses :
            \A ut \in {SyncLoop(Reg, u, f, 1, fault, now).ut} : KeepsOrder(ut)
  /\ KeepsOrder(ClearAllData(Reg).ut)
  /\ \A u \in Owners, tk \in AddInputs :
       /\ CanCall
       /\ MapGetList(userTokens, ToLowerCase(u)) = <<>>
       /\ ToLowerCase(tk.address.s) \notin DOMAIN tokenMetadata
       => GetUserTokens(AddUserToken(Reg, u, tk, fault, now), u)
            = <<Spread(tk, [metadata |-> Undefined])>>

\* C3 witness: an owner holds at least two records, and one whose address
\* is stored in upper case is returned with recorded metadata.
C3_Witness ==
  \E u \in Owners :
    LET got == GetUserTokens(Reg, u)
    IN /\ Len(got) >= 2
       /\ \E i \in 1..Len(got) :
            /\ got[i].metadata # Undefined
            /\ got[i].address.s # ToLowerCase(got[i].address.s)

\* C4: for an owner and a newOwner without records,
\* importUserData(newOwner, exportUserData(owner)) leaves getUserTokens(newOwner)
\* equal, as a set, to the records of getUserTokens(owner) that pass the
\* import validation.
C4_RoundTrip ==
  \A u \in Owners, n \in Owners :
    CanCall /\ MapGetList(userTokens, ToLowerCase(n)) = <<>>
      => Range(GetUserTokens(ExportImport(Reg, u, n, fault, now), n))
           = {r \in Range(GetUserTokens(Reg, u)) : IsValidToken(Obj(r))}

\* The round trip of C4 for the owners whose export returns a document.
C4_RoundTripOfExported ==
  \A u \in Owners, n \in Owners :
    CanCall /\ MapGetList(userTokens, ToLowerCase(n)) = <<>> /\ ~ExportThrows(Reg, u)
      => Range(GetUserTokens(ExportImport(Reg, u, n, fault, now), n))
           = {r \in Range(GetUserTokens(Reg, u)) : IsValidToken(Obj(r))}

\* The entry passes the validation of importUserData.
Passes(e) == ~IsValidTokenThrows(e) /\ IsValidToken(e)

\* The tokens array of an import document, <<>> if it has none.
TokensOf(p) ==
  IF p.t = "object" /\ "tokens" \in DOMAIN p.o /\ p.o.tokens.t = "array"
  THEN p.o.tokens.a ELSE <<>>

\* The records of a tokens array that pass validation, in order.
ValidRecords(tokens) ==
  LET valid == SelectSeq(tokens, Passes)
  IN [i \in 1..Len(valid) |-> valid[i].o]

\* The case of C5: some entries pass, some do not, the passing ones have
\* pairwise distinct addresses and the owner holds none of them.
MixedImport(u, tokens) ==
  LET valid == ValidRecords(tokens)
  IN /\ valid # <<>>
     /\ Len(valid) < Len(tokens)
     /\ \A i, j \in 1..Len(valid) :
          AddressKey(valid[i]) = AddressKey(valid[j]) => i = j
     /\ \A i \in 1..Len(valid) : ~Holds(userTokens, u, valid[i].address.s)

\* C5: importUserData with a tokens array of N records that pass validation
\* (pairwise distinct addresses, none held by the owner) and one or more
\* entries that fail it appends exactly the N records to the owner's list
\* and returns true.
C5_ImportSkipsInvalid ==
  \A u \in Owners, p \in ImportPayloads :
    CanCall /\ MixedImport(u, TokensOf(p))
      => \A r \in {ImportUserData(Reg, u, p, fault, now)} :
           /\ r.ret = Bool(TRUE)
           /\ MapGetList(r.reg.ut, ToLowerCase(u))
                = MapGetList(userTokens, ToLowerCase(u)) \o ValidRecords(TokensOf(p))

\* The statement of C5 for the documents on whose entries validation does
\* not throw.
C5_ImportSkipsRejected ==
  \A u \in Owners, p \in ImportPayloads :
    /\ CanCall
    /\ MixedImport(u, TokensOf(p))
    /\ \A i \in 1..Len(TokensOf(p)) : ~IsValidTokenThrows(TokensOf(p)[i])
    => \A r \in {ImportUserData(Reg, u, p, fault, now)} :
         /\ r.ret = Bool(TRUE)
         /\ MapGetList(r.reg.ut, ToLowerCase(u))
              = MapGetList(userTokens, ToLowerCase(u)) \o ValidRecords(TokensOf(p))

\* No query of the registry R returns, for the owner u, a record with the
\* address a ignoring case.
NotReturned(R, u, a) ==
  /\ \A r \in Range(GetUserTokens(R, u)) : AddressKey(r) # ToLowerCase(a)
  /\ GetToken(R, u, a) = Undefined
  /\ \A q \in SearchQueries :
       \A r \in Range(SearchTokens(R, u, q)) : AddressKey(r) # ToLowerCase(a)

\* The pairs of an owner and an address that may have been removed.
RemovablePairs == Owners \X (TokenAddresses \cup {AddrB})

\* Every pair of an owner and an address that the current state does not
\* hold is not held in the owner-to-tokens map ut either.
AbsentStaysAbsent(ut) ==
  \A x \in RemovablePairs :
    ~Holds(userTokens, x[1], x[2]) => ~Holds(ut, x[1], x[2])

C7_RemoveAbsentNoOp ==
  \A u \in Owners, a \in TokenAddresses :
    CanCall /\ ~Holds(userTokens, u, a)
      => \A R \in {RemoveUserToken(Reg, u, a, fault, now)} :
           /\ R.ut = userTokens
           /\ TotalUsers(R) = TotalUsers(Reg)
           /\ R.tm = tokenMetadata
           /\ R.st.userTokens = storage.userTokens
           /\ R.st.tokenMetadata = storage.tokenMetadata

\* C8: updateTokenMetadata(address, patch) gives the entry of the address
\* the patch's fields, keeps the entry's other fields, sets lastUpdated to
\* the current time, which is not before the previous lastUpdated (0 for a
\* fresh entry) whatever the patch carries, and leaves the other entries
\* and the token records alone.
C8_UpdateTokenMetadata ==
  \A m \in MetadataUpdates :
    CanCall =>
      \A R \in {UpdateTokenMetadata(Reg, m[1], m[2], fault, now)} :
        \A key \in {ToLowerCase(m[1])} :
          /\ DOMAIN R.tm = DOMAIN tokenMetadata \cup {key}
          /\ \A k \in DOMAIN tokenMetadata \ {key} : R.tm[k] = tokenMetadata[k]
          /\ R.ut = userTokens
          /\ LET old == IF key \in DOMAIN tokenMetadata
                        THEN tokenMetadata[key] ELSE [lastUpdated |-> Num(0)]
                 new == R.tm[key]
             IN /\ DOMAIN new = DOMAIN old \cup DOMAIN m[2]
                /\ \A f \in DOMAIN m[2] \ {"lastUpdated"} : new[f] = m[2][f]
                /\ \A f \in DOMAIN old \ (DOMAIN m[2] \cup {"lastUpdated"}) :
                     new[f] = old[f]
                /\ new.lastUpdated = Num(now)
                /\ new.lastUpdated.n >= old.lastUpdated.n

\* C8 witness: tags were set, time passed, and a patch with a description
\* and its own lastUpdated was applied: the entry has the tags, the
\* description and the later time.
C8_Witness ==
  \E k \in DOMAIN tokenMetadata :
    /\ DOMAIN tokenMetadata[k] = {"tags", "description", "lastUpdated"}
    /\ tokenMetadata[k].tags = Arr(<<Str(<<"t">>)>>)
    /\ tokenMetadata[k].description = Str(<<"e">>)
    /\ tokenMetadata[k].lastUpdated = Num(2)

\* The string s has an occurrence of q when letters are compared without
\* regard to case.
ContainsIgnoringCase(s, q) ==
  \E i \in 0..(Len(s) - Len(q)) :
    \A j \in 1..Len(q) : LowerChar(s[i + j]) = LowerChar(q[j])

\* C9: searchTokens(owner, q) for a non-empty q is the list of the records
\* of getUserTokens(owner), in order, whose name, symbol or address has an
\* occurrence of q ignoring case; it is the empty list for an owner without
\* records.
C9_SearchTokens ==
  \A u \in Owners, q \in SearchQueries :
    \A all \in {GetUserTokens(Reg, u)} :
      /\ SearchTokens(Reg, u, q)
           = SelectSeq(all, LAMBDA r : \/ ContainsIgnoringCase(r.name.s, q)
                                       \/ ContainsIgnoringCase(r.symbol.s, q)
                                       \/ ContainsIgnoringCase(r.address.s, q))
      /\ all = <<>> => SearchTokens(Reg, u, q) = <<>>

\* C9 witness: an owner holds two records and the query "Z" returns only
\* the one named "z".
C9_Witness ==
  \E u \in Owners :
    /\ Len(GetUserTokens(Reg, u)) = 2
    /\ \A found \in {SearchTokens(Reg, u, <<"Z">>)} :
         /\ Len(found) = 1
         /\ found[1].name = Str(<<"z">>)

\* The durable documents of the registry R decode to its maps, and the
\* registry loaded from them answers getUserTokens as R does.
Persisted(R) ==
  \A ut \in {LoadUserTokens(R.st.userTokens)}, tm \in {LoadMetadata(R.st.tokenMetadata)} :
    /\ ut = R.ut
    /\ tm = R.tm
    /\ \A u \in Owners :
         GetUserTokens(Registry(ut, tm, R.st), u) = GetUserTokens(R, u)

\* C10: while localStorage accepts every write, after addUserToken,
\* removeUserToken, updateTokenMetadata, an importUserData that accepted a
\* record and clearAllData the durable user-token and metadata documents
\* decode to the in-memory maps, and a registry loaded from them answers
\* getUserTokens as the running one does.
C10_DurableMatchesMemory ==
  CanCall /\ fault = "none" =>
    /\ \A u \in Owners, tk \in AddInputs :
         Persisted(AddUserToken(Reg, u, tk, fault, now))
    /\ \A u \in Owners, a \in TokenAddresses :
         Persisted(RemoveUserToken(Reg, u, a, fault, now))
    /\ \A m \in MetadataUpdates :
         Persisted(UpdateTokenMetadata(Reg, m[1], m[2], fault, now))
    /\ \A u \in Owners, p \in ImportPayloads :
         (\E i \in 1..Len(TokensOf(p)) :
            /\ \A j \in 1..(i - 1) : ~IsValidTokenThrows(TokensOf(p)[j])
            /\ Passes(TokensOf(p)[i]))
           => Persisted(ImportUserData(Reg, u, p, fault, now).reg)
    /\ Persisted(ClearAllData(Reg))

\* The registry R holds no value that JSON.stringify refuses.
Serialisable(R) == ~UserTokensThrows(R.ut)

\* The statement of C10 for the calls that leave a registry JSON.stringify
\* can write.
C10_DurableMatchesSerialisable ==
  CanCall /\ fault = "none" =>
    /\ \A u \in Owners, tk \in AddInputs :
         \A R \in {AddUserToken(Reg, u, tk, fault, now)} :
           Serialisable(R) => Persisted(R)
    /\ \A u \in Owners, a \in TokenAddresses :
         \A R \in {RemoveUserToken(Reg, u, a, fault, now)} :
           Serialisable(R) => Persisted(R)
    /\ \A m \in MetadataUpdates :
         \A R \in {UpdateTokenMetadata(Reg, m[1], m[2], fault, now)} :
           Serialisable(R) => Persisted(R)
    /\ \A u \in Owners, p \in ImportPayloads :
         (\E i \in 1..Len(TokensOf(p)) :
            /\ \A j \in 1..(i - 1) : ~IsValidTokenThrows(TokensOf(p)[j])
            /\ Passes(TokensOf(p)[i]))
           => \A R \in {ImportUserData(Reg, u, p, fault, now).reg} :
                Serialisable(R) => Persisted(R)
    /\ Persisted(ClearAllData(Reg))

(***************************************************************************)
(* Failures of localStorage: which calls an operation makes on it, and     *)
(* whether a try block surrounds them.                                     *)
(***************************************************************************)
\* The methods of localStorage that may throw.
StorageAccesses == {"getItem", "setItem", "removeItem"}

\* The public operations of TokenStorage and its construction.
PublicOperations ==
  {"loadFromStorage", "addUserToken", "getUserTokens", "getToken",
   "updateTokenMetadata", "removeUserToken", "getAllTokens", "searchTokens",
   "getTokensByNetwork", "importUserData", "clearAllData", "getStorageStats"}

\* The localStorage calls of an operation: <<method, inside a try block>>.
StorageCalls(op) ==
  CASE op = "loadFromStorage" -> {<<"getItem", TRUE>>}
    [] op \in {"addUserToken", "removeUserToken", "updateTokenMetadata",
               "importUserData"} -> {<<"setItem", TRUE>>}
    [] op = "clearAllData" -> {<<"removeItem", FALSE>>}
    [] op = "getStorageStats" -> {<<"getItem", FALSE>>}
    [] OTHER -> {}

\* The operation lets the exception of the failing method reach its caller.
Propagates(op, failing) ==
  \E c \in StorageCalls(op) : c[1] = failing /\ ~c[2]

\* clearAllData while a method of localStorage throws: the maps are cleared
\* first; the first removeItem that throws ends the call.
ClearAllDataOutcome(R, failing) ==
  IF Propagates("clearAllData", failing)
  THEN [reg |-> Registry(EmptyMap, EmptyMap, R.st), thrown |-> TRUE]
  ELSE [reg |-> ClearAllData(R), thrown |-> FALSE]

\* getStorageStats while a method of localStorage throws: totalUsers when
\* the statistics are returned.
GetStorageStatsOutcome(R, failing) ==
  IF Propagates("getStorageStats", failing)
  THEN [totalUsers |-> 0, thrown |-> TRUE]
  ELSE [totalUsers |-> TotalUsers(R), thrown |-> FALSE]

\* C11: whichever method of localStorage throws, no public operation of the
\* registry (construction, addUserToken, removeUserToken,
\* updateTokenMetadata, importUserData, clearAllData, getStorageStats, the
\* reads) lets the exception reach its caller.
C11_NoExceptionPropagates ==
  /\ \A op \in PublicOperations, f \in StorageAccesses : ~Propagates(op, f)
  /\ \A f \in StorageAccesses :
       /\ ~ClearAllDataOutcome(Reg, f).thrown
       /\ ~GetStorageStatsOutcome(Reg, f).thrown

\* A stored document that JSON.parse rejects.
Corrupt == [t |-> "corrupt"]

\* loadFromStorage on the store st, the members being new Map(): the two
\* documents are read and assigned in order, and the first getItem or
\* JSON.parse that throws ends the load with what was assigned so far.
\* readFails names the key whose getItem throws, "none" if neither does.
LoadFromStorage(st, readFails) ==
  IF readFails = "userTokens" \/ st.userTokens = Corrupt
  THEN [ut |-> EmptyMap, tm |-> EmptyMap]
  ELSE IF readFails = "tokenMetadata" \/ st.tokenMetadata = Corrupt
       THEN [ut |-> LoadUserTokens(st.userTokens), tm |-> EmptyMap]
       ELSE [ut |-> LoadUserTokens(st.userTokens),
             tm |-> LoadMetadata(st.tokenMetadata)]

\* C12: when a load meets a getItem that throws or a document that does not
\* parse, the registry starts with both maps empty.
C12_FailedLoadStartsEmpty ==
  \A key \in {"userTokens", "tokenMetadata"} :
    /\ \A l \in {LoadFromStorage(storage, key)} :
         l.ut = EmptyMap /\ l.tm = EmptyMap
    /\ \A l \in {LoadFromStorage([storage EXCEPT ![key] = Corrupt], "none")} :
         l.ut = EmptyMap /\ l.tm = EmptyMap

\* C13: no record of an owner's list, in memory or in the durable
\* user-token document, has a metadata property.
C13_NoStoredMetadata ==
  /\ \A k \in DOMAIN userTokens : \A i \in 1..Len(userTokens[k]) :
       "metadata" \notin DOMAIN userTokens[k][i]
  /\ \A ut \in {LoadUserTokens(storage.userTokens)} :
       \A k \in DOMAIN ut : \A i \in 1..Len(ut[k]) :
         "metadata" \notin DOMAIN ut[k][i]


(***************************************************************************)
(* The state machine of the page.  The user clicks, the wallet notifies,   *)
(* and the wallet bridge and the factory contract answer the requests in   *)
(* flight, one answer at a time and in any order.                          *)
(***************************************************************************)
\* A user or wallet event within the bound of the behaviour.
Event ==
  /\ events < MaxEvents
  /\ events' = events + 1

\* The page P, having taken the step named h.
Handled(P, h) == [P EXCEPT !.handled = h]

\* The page takes a step that leaves the registry as it is.
PageOnly == UNCHANGED <<userTokens, tokenMetadata, storage, now, fault, ops, manager>>

PageInit ==
  /\ userTokens = EmptyMap
  /\ tokenMetadata = EmptyMap
  /\ storage = [userTokens |-> Absent, tokenMetadata |-> Absent, lastSync |-> Absent]
  /\ now = 1
  /\ fault = "none"
  /\ ops = 0
  /\ page = InitialPage
  /\ wallet \in [accounts : AccountLists, chainId : ChainIds, hex : HexSpellings,
                 chainChanged : {FALSE}]
  /\ events = 0
  /\ manager = NewManager(<<>>)

\* The Connect button: shown while not connected, disabled while connecting.
ClickConnect ==
  /\ Event
  /\ ~page.session.isConnected /\ ~page.session.isConnecting
  /\ page' = Handled(ConnectWallet(page), "connect")
  /\ UNCHANGED wallet
  /\ PageOnly

\* The Disconnect button: shown while connected.
ClickDisconnect ==
  /\ Event
  /\ page.session.isConnected
  /\ page' = Handled(DisconnectWallet(page, Reg), "disconnect")
  /\ UNCHANGED wallet
  /\ PageOnly

\* A tab button: shown while App has provider, signer and userAddress.
SwitchTab(tab) ==
  /\ Event
  /\ ShouldMount(page.app)
  /\ tab # page.app.activeTab
  /\ page' = Handled(Render(page, [page EXCEPT !.app.activeTab = tab], Reg, FALSE), "tab")
  /\ UNCHANGED wallet
  /\ PageOnly

\* The wallet exposes another account list and emits accountsChanged.
AccountsChanged(accounts) ==
  /\ Event
  /\ accounts # wallet.accounts
  /\ wallet' = [wallet EXCEPT !.accounts = accounts]
  /\ page' = Handled(HandleAccountsChanged(page, accounts, Reg), "accountsChanged")
  /\ PageOnly

\* The user moves the wallet to another chain; the wallet emits
\* chainChanged, which the page has yet to handle.
ChainChanged(chainId) ==
  /\ Event
  /\ chainId # wallet.chainId
  /\ wallet' = WalletSwitches(wallet, chainId)
  /\ UNCHANGED page
  /\ PageOnly

\* The chainChanged notification is delivered; the reload constructs the
\* registry anew from the store.
ChainChangedDelivered ==
  /\ wallet.chainChanged
  /\ wallet' = [wallet EXCEPT !.chainChanged = FALSE]
  /\ page' = Handled(HandleChainChanged(page), "chainChanged")
  /\ userTokens' = LoadFromStorage(storage, "none").ut
  /\ tokenMetadata' = LoadFromStorage(storage, "none").tm
  /\ UNCHANGED <<storage, now, fault, ops, events, manager>>

CheckAccountsAnswered(c) ==
  /\ c.pc = "accounts"
  /\ page' = Handled(CheckAccounts(page, c, wallet), "check")
  /\ UNCHANGED <<wallet, events>>
  /\ PageOnly

CheckNetworkAnswered(c) ==
  /\ c.pc = "network"
  /\ page' = Handled(CheckNetwork(page, c, wallet), "check")
  /\ UNCHANGED <<wallet, events>>
  /\ PageOnly

CheckBalanceAnswered(c) ==
  /\ c.pc = "balance"
  /\ page' = Handled(CheckBalance(page, c, Reg), "checked")
  /\ UNCHANGED <<wallet, events>>
  /\ PageOnly

\* A request of checkConnection is answered with an error.
CheckRejected(c) ==
  /\ Event
  /\ page' = Handled(CheckFails(page, c), "checkFailed")
  /\ UNCHANGED wallet
  /\ PageOnly

\* eth_requestAccounts resolves once the wallet exposes an account.
ConnectRequestAnswered ==
  /\ page.connect = "request"
  /\ wallet.accounts # <<>>
  /\ page' = Handled(ConnectRequested(page), "connecting")
  /\ UNCHANGED <<wallet, events>>
  /\ PageOnly

ConnectChainIdAnswered ==
  /\ page.connect = "chainId"
  /\ page' = Handled(ConnectChainId(page, wallet), "connecting")
  /\ UNCHANGED <<wallet, events>>
  /\ PageOnly

ConnectSignerAnswered ==
  /\ page.connect = "signer"
  /\ wallet.accounts # <<>>
  /\ page' = Handled(ConnectSigner(page, wallet, Reg), "connected")
  /\ UNCHANGED <<wallet, events>>
  /\ PageOnly

\* wallet_switchEthereumChain is answered with an error.
SwitchRejected(code, message) ==
  /\ Event
  /\ page.connect = "switch"
  /\ page' = Handled(ConnectSwitchRejected(page, code, message), "switchRejected")
  /\ UNCHANGED wallet
  /\ PageOnly

\* wallet_switchEthereumChain is answered without error: the wallet is on
\* the Edgen chain, and emits chainChanged if it was not before.
SwitchAnswered ==
  /\ page.connect = "switch"
  /\ wallet' = WalletSwitches(wallet, TargetChain)
  /\ page' = Handled(ConnectSwitched(page), "switched")
  /\ UNCHANGED events
  /\ PageOnly

\* wallet_addEthereumChain is answered without error: the wallet knows the
\* chain, and has moved to it or has stayed where it was.
AddAnswered(chainId) ==
  /\ page.connect = "add"
  /\ chainId \in {wallet.chainId, TargetChain}
  /\ wallet' = WalletSwitches(wallet, chainId)
  /\ page' = Handled(ConnectSwitched(page), "switched")
  /\ UNCHANGED events
  /\ PageOnly

\* Any other request of connectWallet is answered with an error.
ConnectRejected(message) ==
  /\ Event
  /\ page.connect \in {"request", "chainId", "add", "signer"}
  /\ page' = Handled(ConnectFails(page, message), "connectFailed")
  /\ UNCHANGED wallet
  /\ PageOnly

\* getTokensByCreator answers: the loop of addUserToken, then loadTokens.
SyncAnswered(s, factoryTokens) ==
  /\ LET R == SyncLoop(Reg, s.address, factoryTokens, 1, fault, now)
     IN /\ Becomes(R)
        /\ page' = Handled(SyncLoaded(page, s, R), "synced")
  /\ UNCHANGED <<wallet, events, now, fault, ops, manager>>

SyncRejected(s) ==
  /\ Event
  /\ page' = Handled(SyncFails(page, s), "syncFailed")
  /\ UNCHANGED wallet
  /\ PageOnly

PageNext ==
  \/ ClickConnect
  \/ ClickDisconnect
  \/ \E tab \in Tabs : SwitchTab(tab)
  \/ \E accounts \in AccountLists : AccountsChanged(accounts)
  \/ \E chainId \in ChainIds : ChainChanged(chainId)
  \/ ChainChangedDelivered
  \/ \E c \in page.checks : CheckAccountsAnswered(c)
  \/ \E c \in page.checks : CheckNetworkAnswered(c)
  \/ \E c \in page.checks : CheckBalanceAnswered(c)
  \/ \E c \in page.checks : CheckRejected(c)
  \/ ConnectRequestAnswered
  \/ ConnectChainIdAnswered
  \/ ConnectSignerAnswered
  \/ \E code \in SwitchErrorCodes, message \in ErrorMessages : SwitchRejected(code, message)
  \/ SwitchAnswered
  \/ \E chainId \in ChainIds : AddAnswered(chainId)
  \/ \E message \in ErrorMessages : ConnectRejected(message)
  \/ \E s \in page.syncs, f \in FactoryResponses : SyncAnswered(s, f)
  \/ \E s \in page.syncs : SyncRejected(s)

PageSpec == PageInit /\ [][PageNext]_vars

\* The wallet bridge answers the requests of checkConnection.
CheckAnswered ==
  \E c \in page.checks :
    CheckAccountsAnswered(c) \/ CheckNetworkAnswered(c) \/ CheckBalanceAnswered(c)

\* The page with a wallet bridge that does not leave a request of
\* checkConnection unanswered for ever, and with an event loop that
\* delivers an emitted chainChanged notification to its handler.
PageLive == PageSpec /\ WF_vars(CheckAnswered) /\ WF_vars(ChainChangedDelivered)

PageTypeOK ==
  /\ events \in 0..MaxEvents
  /\ page.connect \in {"idle", "request", "chainId", "switch", "add", "signer"}
  /\ page.session.networkStatus \in {"unknown", "correct", "wrong"}
  /\ page.app.activeTab \in Tabs
  /\ wallet.chainId \in ChainIds


(***************************************************************************)
(* Properties of the wallet session.                                       *)
(***************************************************************************)
\* connectWallet is between its first await and its finally block.
ConnectInFlight == page.connect # "idle"

\* C14: a connect() that fails at any step finishes with the session
\* Disconnected, a non-empty error message, and onWalletConnected not
\* invoked since it started, whatever was delivered while it was in flight.
C14_FailedConnectStaysDisconnected ==
  ConnectInFlight =>
    \A message \in ErrorMessages :
      \A Q \in {ConnectFails(page, message)} :
        /\ ~Q.session.isConnected
        /\ Q.session.error # ""
        /\ ~Q.connectedSince


\* The session is Disconnected with the fields of a session never connected.
SessionReset(P) ==
  /\ ~P.session.isConnected
  /\ P.session.address = <<>>
  /\ P.session.balance = <<"0">>
  /\ P.session.networkStatus = "unknown"

\* The application holds no provider, no signer and no user address.
AppCleared(P) ==
  /\ ~P.app.provider
  /\ P.app.signer = NoSigner
  /\ P.app.userAddress = <<>>

\* C15: handling an accountsChanged notification with an empty account list,
\* in whatever state the session is, leaves the session Disconnected with
\* address empty, balance '0' and networkStatus unknown, and the application
\* without provider, signer and user address.
C15_EmptyAccountsDisconnect ==
  /\ \A Q \in {HandleAccountsChanged(page, <<>>, Reg)} :
       SessionReset(Q) /\ AppCleared(Q)
  /\ page.handled = "accountsChanged" /\ wallet.accounts = <<>>
       => SessionReset(page) /\ AppCleared(page)

\* C15 witness: the empty notification was handled by a page whose tab
\* component had been mounted for a connected wallet; its sync is orphaned.
C15_Witness ==
  /\ page.handled = "accountsChanged"
  /\ wallet.accounts = <<>>
  /\ \E s \in page.syncs : ~s.live
  /\ SessionReset(page) /\ AppCleared(page)

\* networkStatus as checkConnection reads it from the chain of the wallet.
StatusOf(w) == IF w.chainId = TargetChain THEN "correct" ELSE "wrong"

\* The session is Connected to the account, with the balance and the network
\* status of that account, and the application holds its address.
Resolved(account) ==
  /\ page.session.isConnected
  /\ page.session.address = GetAddress(account)
  /\ ToLowerCase(page.session.address) = account
  /\ page.session.balance = FormatEther(GetBalance(account))
  /\ page.session.networkStatus = StatusOf(wallet)
  /\ page.app.provider
  /\ page.app.signer = page.session.address
  /\ page.app.userAddress = page.session.address

\* C16: once an accountsChanged notification with a non-empty list has been
\* handled, the session eventually is Connected to the new primary account
\* with its balance and network status and the application holds the same
\* address, unless a bridge error, a disconnect, a reload or a later
\* notification supersedes the notification first.
C16_AccountChangeResolves ==
  (page.handled = "accountsChanged" /\ page.notified # <<>>)
    ~> (page.notified = <<>> \/ Resolved(page.notified))

\* C16 witness: checkConnection has completed for the notified account, which
\* is not the account the page was connected to before.
C16_Witness ==
  /\ page.handled = "checked"
  /\ page.notified = AddrB
  /\ Resolved(AddrB)
  /\ \E s \in page.syncs : s.address = GetAddress(AddrA)

\* C17: handling a chainChanged notification leaves no session field written
\* in place: the page is the page of a fresh load, with the initial session
\* and application state and the mount-time connection check in flight.
C17_ChainChangeReloads ==
  /\ \A Q \in {HandleChainChanged(page)} :
       /\ Q.session = InitialSession
       /\ Q.app = InitialApp
       /\ Q.checks = {NewCheck}
       /\ Q.connect = "idle" /\ Q.hook = NoHook /\ Q.syncs = {}
  /\ page.handled = "chainChanged" => page = Handled(InitialPage, "chainChanged")

\* C17 witness: the notification was handled while the wallet exposed an
\* account, and the mount-time check of the reloaded page is in flight.
C17_Witness ==
  /\ page.handled = "chainChanged"
  /\ wallet.accounts # <<>>
  /\ wallet.chainId = OtherChain
  /\ page.session = InitialSession
  /\ NewCheck \in page.checks

\* The requests in flight to the wallet bridge and to the factory contract.
BridgeRequests(P) == <<P.connect, P.checks>>
ContractCalls(P) == {s.address : s \in P.syncs}

\* C18: disconnect() adds no request to the wallet bridge and no contract
\* call; it resets the session, clears the application state, and leaves the
\* token registry and the wallet as they are.
C18_DisconnectIsLocal ==
  /\ [](\A Q \in {DisconnectWallet(page, Reg)} :
          /\ BridgeRequests(Q) = BridgeRequests(page)
          /\ ContractCalls(Q) = ContractCalls(page)
          /\ Q.autoSyncs = page.autoSyncs
          /\ SessionReset(Q) /\ AppCleared(Q))
  /\ [][page.session.isConnected /\ page'.handled = "disconnect" /\ page' # page
          => UNCHANGED <<userTokens, tokenMetadata, storage, wallet>>]_vars

\* C18 witness: disconnect() has run on a connected session; the wallet still
\* exposes the account, and the sync of the unmounted component is orphaned.
C18_Witness ==
  /\ page.handled = "disconnect"
  /\ wallet.accounts # <<>>
  /\ SessionReset(page) /\ AppCleared(page)
  /\ \E s \in page.syncs : ~s.live

\* C20: between two page loads syncWithBlockchain is started by the auto-sync
\* effect at most once.
C20_AutoSyncAtMostOnce == page.autoSyncs <= 1


(***************************************************************************)
(* Properties of the synchronisation with the factory contract.            *)
(***************************************************************************)
\* The number of the owner's records with the address, ignoring case.
RecordsWith(ut, u, a) ==
  Cardinality({i \in 1..Len(MapGetList(ut, ToLowerCase(u))) :
                 AddressKey(MapGetList(ut, ToLowerCase(u))[i]) = ToLowerCase(a)})

\* C19: for a fixed factory response and user address, running the loop of
\* syncWithBlockchain again, at the same or a later time, leaves the registry
\* (both maps and the store) as the first run left it, and after a run the
\* owner holds exactly one record for each reported token address.
C19_SyncIdempotent ==
  CanCall =>
    \A u \in Owners, f \in FactoryResponses :
      \A once \in {SyncLoop(Reg, u, f, 1, fault, now)} :
        /\ \A time \in now..MaxTime : SyncLoop(once, u, f, 1, fault, time) = once
        /\ \A i \in 1..Len(f) : RecordsWith(once.ut, u, f[i].tokenAddress.s) = 1

\* C19 witness: an owner that held a record of the first reported address
\* was synchronised with the two-token response; the record kept its place
\* with the reported fields and the other token was appended.
C19_Witness ==
  \E k \in DOMAIN userTokens :
    userTokens[k] = <<FactoryUserToken(FactoryToken(AddrC, <<"a">>), Num(4207)),
                      FactoryUserToken(FactoryToken(AddrA, <<"A", "b">>), Num(4207))>>


(***************************************************************************)
(* Properties of the records the registry holds.                           *)
(***************************************************************************)
\* An import file whose one record passes isValidToken with a decimals
\* number above 18.
PayloadDecimals ==
  ImportDocument(Arr(<<Obj([PartialA EXCEPT !.decimals = Num(19)])>>))

\* The decimals of the record is a whole number from 0 to 18, held as a
\* number or as the bigint ethers decodes.
DecimalsInRange(record) ==
  /\ "decimals" \in DOMAIN record
  /\ record.decimals.t \in {"number", "bigint"}
  /\ record.decimals.n \in 0..18

AllDecimalsInRange(ut) ==
  \A k \in DOMAIN ut : \A i \in 1..Len(ut[k]) : DecimalsInRange(ut[k][i])

\* C24: every record the registry holds has a whole decimals value from 0 to
\* 18, in the reachable states and after importUserData of a file whose
\* record names another decimals number.
C24_DecimalsInRange ==
  /\ AllDecimalsInRange(userTokens)
  /\ CanCall =>
       \A u \in Owners :
         AllDecimalsInRange(ImportUserData(Reg, u, PayloadDecimals, fault, now).reg.ut)

\* C26: a call of importUserData that returns false leaves the
\* owner-to-tokens map, the metadata map and the store as they were.
C26_FailedImportChangesNothing ==
  CanCall =>
    \A u \in Owners, p \in ImportPayloads :
      \A r \in {ImportUserData(Reg, u, p, fault, now)} :
        r.ret = Bool(FALSE) => r.reg = Reg

\* The record of the list with the address, ignoring case.
RecordWith(list, a) == list[FindIndex(list, ToLowerCase(a))]

\* C30: the loop of syncWithBlockchain leaves the transactionHash of every
\* record the owner already held with a non-empty hash as it was.
C30_SyncKeepsTransactionHash ==
  CanCall =>
    \A u \in Owners, f \in FactoryResponses :
      \A before \in {MapGetList(userTokens, ToLowerCase(u))} :
        \A after \in {MapGetList(SyncLoop(Reg, u, f, 1, fault, now).ut, ToLowerCase(u))} :
          \A i \in 1..Len(before) :
            /\ "transactionHash" \in DOMAIN before[i]
            /\ before[i].transactionHash # Str(<<>>)
            => RecordWith(after, before[i].address.s).transactionHash
                 = before[i].transactionHash


(***************************************************************************)
(* Properties of connect() and of the network status.                      *)
(***************************************************************************)
\* connectWallet has the answer to eth_chainId to act on.
AtChainId == page.connect = "chainId"

\* The parts of C22 after the decision to switch: a switch rejected with
\* 4902 leads to the add request, one rejected with another code ends
\* connect() with an error, and connect() resolves the signer only after the
\* reported chain id matched or the switch or the add was answered without
\* error, and reaches Connected only from there.
C22_SwitchAddAndFail ==
  /\ [](page.connect = "switch" =>
          \A code \in SwitchErrorCodes, message \in ErrorMessages :
            \A Q \in {ConnectSwitchRejected(page, code, message)} :
              IF code = ChainNotAdded
              THEN Q.connect = "add" /\ Q.session = page.session
              ELSE /\ Q.connect = "idle"
                   /\ Q.session.error # ""
                   /\ ~Q.session.isConnecting
                   /\ Q.session.isConnected = page.session.isConnected)
  /\ [][/\ page'.connect = "signer" /\ page.connect # "signer"
             => \/ page.connect = "chainId" /\ EthChainId(wallet) = EdgenChainId
                \/ page.connect \in {"switch", "add"} /\ page'.handled = "switched"
        /\ page'.handled = "connected" /\ page' # page
             => page.connect = "signer"]_vars

\* C22: in connect(), once account access is granted, the network switch is
\* requested exactly when the chain of the wallet is not the target chain
\* 4207; together with the parts of C22_SwitchAddAndFail.
C22_SwitchExactlyWhenChainDiffers ==
  /\ [](AtChainId =>
          (ConnectChainId(page, wallet).connect = "switch"
             <=> wallet.chainId # TargetChain))
  /\ C22_SwitchAddAndFail


\* C23: while the session is Connected and no chainChanged notification
\* awaits its handler, a network status of correct means that the wallet is
\* on the chain 4207 and a status of wrong that it is on another chain.
C23_NetworkStatusMatchesChain ==
  page.session.isConnected /\ ~wallet.chainChanged =>
    /\ page.session.networkStatus = "correct" => wallet.chainId = TargetChain
    /\ page.session.networkStatus = "wrong" => wallet.chainId # TargetChain

\* C23 witness: the connection check found the wallet on another chain.
C23_Witness ==
  /\ page.session.isConnected /\ ~wallet.chainChanged
  /\ page.handled = "checked"
  /\ page.session.networkStatus = "wrong"
  /\ wallet.chainId = OtherChain

\* C27: a session that is not Connected has the empty address.
C27_DisconnectedHasNoAddress ==
  ~page.session.isConnected => page.session.address = <<>>

\* C28: when connect() has succeeded with the wallet on the chain 4207, no
\* notification awaits its handler and no connection check is in flight, the
\* session is Connected with the network status correct and the balance of
\* the connected account.
C28_ConnectReadsNetworkAndBalance ==
  /\ page.handled = "connected"
  /\ wallet.chainId = TargetChain /\ ~wallet.chainChanged
  /\ page.checks = {}
  => /\ page.session.isConnected
     /\ page.session.networkStatus = "correct"
     /\ page.session.balance = FormatEther(GetBalance(page.session.address))

\* C21: the auto-sync effect starts syncWithBlockchain only when the registry
\* holds no record of the connected user address on the chain of the hook.
C21_AutoSyncOnlyWhenRegistryEmpty ==
  [][page'.autoSyncs > page.autoSyncs
       => LoadTokens(Reg, page'.app.userAddress) = 0]_vars


(***************************************************************************)
(* The state machine of one mounted useTokenManager instance over the      *)
(* registry.  Each step is a callback of the hook together with the        *)
(* effects of the renders it causes; a sync is in flight between its two   *)
(* steps.                                                                  *)
(***************************************************************************)
\* The userAddress props: the addresses App.handleWalletConnected is handed.
HookUsers == {GetAddress(AddrA), GetAddress(AddrB)}

\* A token of another chain than the hook's.
TokOtherChain == [TokBadCreator EXCEPT !.chainId = Num(1)]

HookTokens == {TokA, TokCreated, TokOtherChain}

HookStep ==
  /\ ops < MaxOps
  /\ ops' = ops + 1
  /\ UNCHANGED <<now, fault, page, wallet, events>>

HookInit ==
  /\ userTokens = EmptyMap
  /\ tokenMetadata = EmptyMap
  /\ storage = [userTokens |-> Absent, tokenMetadata |-> Absent, lastSync |-> Absent]
  /\ now = 1
  /\ fault = "none"
  /\ ops = 0
  /\ page = InitialPage
  /\ wallet = [accounts |-> <<>>, chainId |-> TargetChain, hex |-> "lower",
               chainChanged |-> FALSE]
  /\ events = 0
  /\ manager \in {NewManager(u) : u \in HookUsers}

DoSelectToken(tokenAddress) ==
  /\ HookStep
  /\ manager' = SelectToken(manager, Reg, tokenAddress)
  /\ UNCHANGED <<userTokens, tokenMetadata, storage>>

DoAddToken(token) ==
  /\ HookStep
  /\ \E r \in {AddToken(manager, Reg, token, fault, now)} :
       manager' = r.m /\ Becomes(r.reg)

DoRemoveToken(tokenAddress) ==
  /\ HookStep
  /\ \E r \in {RemoveToken(manager, Reg, tokenAddress, fault, now)} :
       manager' = r.m /\ Becomes(r.reg)

DoSetUserAddress(userAddress) ==
  /\ HookStep
  /\ userAddress # manager.userAddress
  /\ manager' = SetUserAddress(manager, Reg, userAddress)
  /\ UNCHANGED <<userTokens, tokenMetadata, storage>>

DoSyncStarted ==
  /\ HookStep
  /\ Closure(manager) \notin manager.syncs
  /\ manager' = SyncStarted(manager)
  /\ UNCHANGED <<userTokens, tokenMetadata, storage>>

DoSyncFinished(cl, factoryTokens) ==
  /\ \E r \in {SyncFinished(manager, Reg, cl, factoryTokens, fault, now)} :
       manager' = r.m /\ Becomes(r.reg)
  /\ UNCHANGED <<now, fault, ops, page, wallet, events>>

HookNext ==
  \/ \E a \in TokenAddresses : DoSelectToken(a)
  \/ \E token \in HookTokens : DoAddToken(token)
  \/ \E a \in TokenAddresses : DoRemoveToken(a)
  \/ \E u \in HookUsers : DoSetUserAddress(u)
  \/ DoSyncStarted
  \/ \E cl \in manager.syncs, f \in FactoryResponses : DoSyncFinished(cl, f)

HookSpec == HookInit /\ [][HookNext]_vars

\* No call of syncWithBlockchain is in flight; the effects have run.
HookSettled == manager.syncs = {}

\* C25: removeToken of the address of the selected token leaves, once the
\* effects have settled, no token selected.
C25_RemoveSelectedClearsSelection ==
  CanCall /\ HookSettled /\ manager.selectedToken # Null =>
    RemoveToken(manager, Reg, manager.selectedToken.o.address.s, fault, now)
      .m.selectedToken = Null

\* C29: whenever no call is in flight and the effects have run, the selected
\* token is null or a token of chain 4207 whose address the registry holds
\* for the current userAddress.
C29_SelectionHeldByUser ==
  HookSettled /\ manager.selectedToken # Null =>
    \E i \in 1..Len(NetworkTokens(Reg, manager.userAddress)) :
      AddressKey(NetworkTokens(Reg, manager.userAddress)[i])
        = ToLowerCase(manager.selectedToken.o.address.s)

====
